---- MODULE Spec2Model ----
(***************************************************************************)
(* CallPilot swarm orchestrator (backend/swarm.py), its scoring engine     *)
(* (backend/scoring.py), the ElevenLabs webhook handler that feeds         *)
(* external confirmations into a race (backend/webhook_handler.py) and the *)
(* support-triggered single-candidate booking                              *)
(* (backend/booking_orchestration.py).                                     *)
(*                                                                         *)
(* Scheduling: the race runs on one asyncio event loop, so the code        *)
(* between two awaits is one atomic step.  run_agent has three sleeps;     *)
(* its last segment awaits _evaluate_complete() directly, which runs       *)
(* inline (the coroutine has no await inside).  process_webhook_result is  *)
(* synchronous and schedules _evaluate_complete() with create_task, so     *)
(* that evaluation is a later step of its own.                             *)
(*                                                                         *)
(* Events: every swarm:update goes through main._broadcast, which sends it *)
(* to the WebSocket clients subscribed to the race and to nobody when      *)
(* there is none; updates holds what a subscribed client was sent.         *)
(***************************************************************************)
EXTENDS Integers, Sequences, FiniteSets, TLC

\* ------------------------------------------------------------- bounds
\* Number of candidates of a race started through SwarmOrchestrator.run.
NumAgents == 2
\* Number of inbound book_appointment webhooks one race processes.
MaxWebhooks == 1

\* ------------------------------------------------------ values, slots
\* Python None for strings; None and "" are both falsy.
None == "None"
\* Python None for the numeric provider fields (rating, distanceMiles).
NoneNum == -1

Truthy(s) == s # None /\ s # ""

\* The race registered by this model run (swarm_id = "swarm-<hex>").
SwarmId == "swarm-1"

\* Slots a simulated receptionist offers (a subset of MOCK_SLOTS).
WorkerSlots == {"9:00 AM", "2:15 PM"}
\* slot_time values an inbound webhook carries before normalisation.
WebhookRawSlots == {None, "Today at 2:15 PM", "9:00 AM"}
\* slot_time values schedule_appointment hands to the booking orchestration.
SupportSlots == {"8:00 AM", "9:30 AM", "2:15 PM"}
\* A slot text of receptionist_simulation.json that is not a clock time.
MalformedSlot == "after lunch"
\* Slots a receptionist of the simulation file offers.
DemoSlots == {"9:00 AM", "10:00 AM", "2:15 PM", MalformedSlot}
\* The race a second search over the same catalog registers.
SwarmId2 == "swarm-2"

MIN_VALID_TIME == "9:30 AM"

\* The slot strings of the model, tokenised: the number of
\* whitespace-separated parts str.split() gives, whether int() accepts the
\* first part, and the hour, minute and period read from them.  Any other
\* string has a single part.
Tokens(t) ==
    CASE t = "7:00 AM"  -> [n |-> 2, int |-> TRUE, h |-> 7,  m |-> 0,  period |-> "AM"]
      [] t = "8:00 AM"  -> [n |-> 2, int |-> TRUE, h |-> 8,  m |-> 0,  period |-> "AM"]
      [] t = "9:00 AM"  -> [n |-> 2, int |-> TRUE, h |-> 9,  m |-> 0,  period |-> "AM"]
      [] t = "9:30 AM"  -> [n |-> 2, int |-> TRUE, h |-> 9,  m |-> 30, period |-> "AM"]
      [] t = "10:00 AM" -> [n |-> 2, int |-> TRUE, h |-> 10, m |-> 0,  period |-> "AM"]
      [] t = "11:00 AM" -> [n |-> 2, int |-> TRUE, h |-> 11, m |-> 0,  period |-> "AM"]
      [] t = "12:00 PM" -> [n |-> 2, int |-> TRUE, h |-> 12, m |-> 0,  period |-> "PM"]
      [] t = "2:00 PM"  -> [n |-> 2, int |-> TRUE, h |-> 2,  m |-> 0,  period |-> "PM"]
      [] t = "2:15 PM"  -> [n |-> 2, int |-> TRUE, h |-> 2,  m |-> 15, period |-> "PM"]
      [] t = "3:00 PM"  -> [n |-> 2, int |-> TRUE, h |-> 3,  m |-> 0,  period |-> "PM"]
      [] t = "5:00 PM"  -> [n |-> 2, int |-> TRUE, h |-> 5,  m |-> 0,  period |-> "PM"]
      [] t = "6:00 PM"  -> [n |-> 2, int |-> TRUE, h |-> 6,  m |-> 0,  period |-> "PM"]
      [] t = MalformedSlot
                        -> [n |-> 2, int |-> FALSE, h |-> 0, m |-> 0, period |-> "LUNCH"]
      [] OTHER          -> [n |-> 1, int |-> FALSE, h |-> 0, m |-> 0, period |-> "AM"]

\* scoring.parse_time raises ValueError: two parts or more, the first of
\* which int() rejects.
ParseTimeRaises(t) == Truthy(t) /\ Tokens(t).n >= 2 /\ ~Tokens(t).int

\* scoring.parse_time: '10:30 AM' -> minutes since midnight, 0 for a falsy
\* or single-part string.
parse_time(t) ==
    IF ~Truthy(t) THEN 0
    ELSE LET p == Tokens(t) IN
         IF p.n < 2 THEN 0
         ELSE LET h1 == IF p.period = "PM" /\ p.h # 12 THEN p.h + 12 ELSE p.h
                  h2 == IF p.period = "AM" /\ h1 = 12 THEN 0 ELSE h1
              IN  h2 * 60 + p.m

\* webhook_handler.normalize_slot_time: extract "H:MM AM" from the raw text;
\* a missing slot becomes "9:30 AM".
normalize_slot_time(raw) ==
    IF ~Truthy(raw) THEN "9:30 AM"
    ELSE CASE raw = "Today at 2:15 PM" -> "2:15 PM"
           [] OTHER -> raw

\* calendar_service._mock_busy_slots
mock_busy_slots == << <<"9:00 AM", "9:30 AM">>, <<"2:00 PM", "3:00 PM">> >>

\* calendar_service.parse_time_to_minutes: the first "H:MM AM/PM" found by
\* the regular expression, 0 when there is none.
parse_time_to_minutes(t) ==
    IF ~Truthy(t) THEN 0
    ELSE LET p == Tokens(t)
             h1 == IF p.period = "PM" /\ p.h # 12 THEN p.h + 12 ELSE p.h
             h2 == IF p.period = "AM" /\ h1 = 12 THEN 0 ELSE h1
         IN  h2 * 60 + p.m

\* calendar_service.is_slot_available: a 30 minute appointment must not
\* overlap a busy range.
is_slot_available(proposed_time) ==
    LET start_m == parse_time_to_minutes(proposed_time)
        end_m   == start_m + 30
    IN  \A i \in DOMAIN mock_busy_slots :
            ~(start_m < parse_time_to_minutes(mock_busy_slots[i][2])
              /\ end_m > parse_time_to_minutes(mock_busy_slots[i][1]))

\* ------------------------------------------------------------- state
VARIABLES
    agents,             \* self.agents: sequence of ProviderAgent records
    provider_metadata,  \* self._provider_metadata: id -> rating, distanceMiles
    preference_weights, \* self._preference_weights (a dict; None is the empty dict)
    winner,             \* self.winner: agent id, 0 for None
    ranked_shortlist,   \* self.ranked_shortlist
    completed,          \* self.completed
    completed_count,    \* self.completed_count
    swarms,             \* module registry _swarms (its keys)
    agent_to_swarm,     \* module registry _agent_to_swarm
    pc,                 \* position of each run_agent task
    slot,               \* run_agent's local slot = random.choice(slots)
    evalTasks,          \* _evaluate_complete tasks created and not yet run
    completedEvents,    \* swarm:completed payloads handed to broadcast, in order
    broadcasts,         \* swarm:start and the events of the arbitration, in order
    ws_connections,     \* main._ws_connections: race ids with a WebSocket client
    updates,            \* swarm:update payloads sent to the client, per agent id
    webhooks,           \* webhooks handed to process_webhook_result so far
    evalBodyRuns,       \* times the body of _evaluate_complete was entered
    arbInput,           \* self.agents as the body of _evaluate_complete found it
    arbState,           \* "none", "done" (body ran to its end) or "raised"
    swarm2,             \* second race: "none", "registered" or "completed"
    spc,                \* position of the support booking thread (_run)
    support_slot,       \* slot_time given to trigger_booking_orchestration
    score_call,         \* arguments of a direct calculate_score call, None for none
    score_result,       \* what that call returned, NoneNum while it has not
    WAITLIST,           \* bookings_store._WAITLIST
    notified_runs,      \* what each check_waitlist_and_notify run returned
    waitlist_sent,      \* events handed to broadcast_support by those runs
    user_overrides,     \* main._user_overrides: session id -> pending overrides
    override_clock,     \* overrides submitted so far (the ts of the last one)
    submitted,          \* per session, the ts submitted since its last poll
    due,                \* ts that were among a session's last ten at its poll
    delivered           \* per ts, the number of polls that returned it

vars == <<agents, provider_metadata, preference_weights, winner, ranked_shortlist,
          completed, completed_count, swarms, agent_to_swarm, pc, slot, evalTasks,
          completedEvents, broadcasts, ws_connections, updates, webhooks,
          evalBodyRuns, arbInput, arbState, swarm2, spc, support_slot, score_call,
          score_result, WAITLIST, notified_runs, waitlist_sent, user_overrides,
          override_clock, submitted, due, delivered>>

raceVars == <<agents, winner, ranked_shortlist, completed, completed_count, swarms,
              agent_to_swarm, completedEvents, broadcasts, updates, evalBodyRuns,
              arbInput, arbState>>

staticVars == <<provider_metadata, preference_weights, slot, support_slot,
                ws_connections>>

waitlistVars == <<WAITLIST, notified_runs, waitlist_sent>>

overrideVars == <<user_overrides, override_clock, submitted, due, delivered>>

storeVars == <<waitlistVars, overrideVars>>

\* What the modelled race and the support thread leave alone.
otherVars == <<staticVars, swarm2, score_call, score_result, storeVars>>

Ids(ags) == {ags[i].id : i \in DOMAIN ags}

Terminal == {"booked", "rejected", "cancelled"}

\* models.ProviderAgent as built by provider_service.to_provider_agents
ProviderAgent(id, rating, distance) ==
    [id |-> id, status |-> "searching", slotTime |-> None,
     rating |-> rating, distance_miles |-> distance]

AgentOf(ags, id) == ags[CHOOSE i \in DOMAIN ags : ags[i].id = id]


\* Mutant of UpdateAgent: the slot is assigned as given, None included.
UpdateAgent_Overwrites(ags, agent_id, status, slot_time) ==
    [i \in DOMAIN ags |->
        IF ags[i].id = agent_id
        THEN [ags[i] EXCEPT !.status = status, !.slotTime = slot_time]
        ELSE ags[i]]

\* SwarmOrchestrator._update_agent: the first agent with this id gets the
\* status; its slot is overwritten only by a truthy slot_time.
UpdateAgent(ags, agent_id, status, slot_time) ==
    [i \in DOMAIN ags |->
        IF ags[i].id = agent_id
        THEN [ags[i] EXCEPT !.status = status,
                            !.slotTime = IF Truthy(slot_time) THEN slot_time ELSE @]
        ELSE ags[i]]

\* main._broadcast: the clients subscribed to the race, none when the race
\* has no entry.
Subscribed == SwarmId \in ws_connections

\* Mutant of EmitUpdate: the payload carries no slot.
EmitUpdate_NoSlot(ups, agent_id, status, slot_time) ==
    IF Subscribed
    THEN [ups EXCEPT ![agent_id] = Append(@, [status |-> status, slotTime |-> None])]
    ELSE ups

\* self._emit("swarm:update", {agentId, status, slotTime, ...}): the payload
\* is sent to the clients subscribed to the race.
EmitUpdate(ups, agent_id, status, slot_time) ==
    IF Subscribed
    THEN [ups EXCEPT ![agent_id] = Append(@, [status |-> status, slotTime |-> slot_time])]
    ELSE ups

\* ------------------------------------------------------------ scoring
\* Scores are exact fractions over ScoreScale: weights are hundredths,
\* ratings tenths of a star, distances tenths of a mile.
ScoreScale == 270000

EmptyDict == [k \in {} |-> 0]

\* dict.get(key, default)
DictGet(d, k, default) == IF k \in DOMAIN d THEN d[k] ELSE default

Max(a, b) == IF a >= b THEN a ELSE b
Min(a, b) == IF a <= b THEN a ELSE b

\* provider_metadata.get(a.id, {}).get("rating" / "distanceMiles")
MetaRating(meta, id) == IF id \in DOMAIN meta THEN meta[id].rating ELSE NoneNum
MetaDistance(meta, id) == IF id \in DOMAIN meta THEN meta[id].distanceMiles ELSE NoneNum

\* calculate_score: the rating and the distance it ends up dividing.
\* getattr(provider, "rating", 4.5) returns the attribute, which exists on
\* every ProviderAgent and is None when the catalog gave no rating.
ScoreRating(a, rating_value) == IF rating_value # NoneNum THEN rating_value ELSE a.rating
ScoreDistance(a, distance_miles) ==
    IF distance_miles # NoneNum THEN distance_miles ELSE a.distance_miles

\* calculate_score raises TypeError (None / 5.0, None / 10.0).
ScoreRaises(a, rating_value, distance_miles) ==
    \/ ScoreRating(a, rating_value) = NoneNum
    \/ ScoreDistance(a, distance_miles) = NoneNum

\* Mutant of calculate_score: the window is open at 08:00 (mins > 480).
calculate_score_ExclusiveOpening(a, time_weight, rating_weight, distance_weight, rating_value, distance_miles) ==
    LET mins  == parse_time(a.slotTime)
        timeS == IF Truthy(a.slotTime) /\ mins > 480 /\ mins <= 1020
                 THEN time_weight * (1020 - mins) * 5
                 ELSE 0
        ratS  == rating_weight * ScoreRating(a, rating_value) * 54
        dist  == ScoreDistance(a, distance_miles)
        disS  == distance_weight * Max(0, 100 - dist) * 27
    IN  Min(ScoreScale, timeS + ratS + disS)

\* Mutant of calculate_score: the window is taken to open at the 9:30 floor
\* (mins from 570, over 450 minutes).
calculate_score_FloorOpening(a, time_weight, rating_weight, distance_weight, rating_value, distance_miles) ==
    LET mins  == parse_time(a.slotTime)
        timeS == IF Truthy(a.slotTime) /\ mins >= 570 /\ mins <= 1020
                 THEN time_weight * (1020 - mins) * 6
                 ELSE 0
        ratS  == rating_weight * ScoreRating(a, rating_value) * 54
        dist  == ScoreDistance(a, distance_miles)
        disS  == distance_weight * Max(0, 100 - dist) * 27
    IN  Min(ScoreScale, timeS + ratS + disS)

\* Mutant of calculate_score: the sum is returned without min(1.0, score).
calculate_score_Unclamped(a, time_weight, rating_weight, distance_weight, rating_value, distance_miles) ==
    LET mins  == parse_time(a.slotTime)
        timeS == IF Truthy(a.slotTime) /\ mins >= 480 /\ mins <= 1020
                 THEN time_weight * (1020 - mins) * 5
                 ELSE 0
        ratS  == rating_weight * ScoreRating(a, rating_value) * 54
        dist  == ScoreDistance(a, distance_miles)
        disS  == distance_weight * Max(0, 100 - dist) * 27
    IN  timeS + ratS + disS

\* scoring.calculate_score, times ScoreScale.
calculate_score(a, time_weight, rating_weight, distance_weight, rating_value, distance_miles) ==
    LET mins  == parse_time(a.slotTime)
        timeS == IF Truthy(a.slotTime) /\ mins >= 480 /\ mins <= 1020
                 THEN time_weight * (1020 - mins) * 5
                 ELSE 0
        ratS  == rating_weight * ScoreRating(a, rating_value) * 54
        dist  == ScoreDistance(a, distance_miles)
        disS  == distance_weight * Max(0, 100 - dist) * 27
    IN  Min(ScoreScale, timeS + ratS + disS)

\* [a for a in agents if a.status == BOOKED and a.slotTime]
Booked(ags) ==
    SelectSeq(ags, LAMBDA a : a.status = "booked" /\ Truthy(a.slotTime))

\* min(booked, key=parse_time): the first agent of the booked list whose
\* slot is the minimum.
MinByTime(booked) ==
    LET i == CHOOSE i \in DOMAIN booked :
                 /\ \A j \in DOMAIN booked :
                        parse_time(booked[i].slotTime) <= parse_time(booked[j].slotTime)
                 /\ \A j \in 1..(i - 1) :
                        parse_time(booked[j].slotTime) > parse_time(booked[i].slotTime)
    IN  booked[i]

RemoveAt(s, i) == SubSeq(s, 1, i - 1) \o SubSeq(s, i + 1, Len(s))

\* Mutant of SortByScoreDesc: a sort that is not stable, equal scores come
\* out in reverse order.
RECURSIVE SortByScoreDesc_Unstable(_)
SortByScoreDesc_Unstable(scored) ==
    IF scored = << >> THEN << >>
    ELSE LET i == CHOOSE i \in DOMAIN scored :
                      /\ \A j \in DOMAIN scored : scored[i].score >= scored[j].score
                      /\ \A j \in (i + 1)..Len(scored) : scored[j].score < scored[i].score
         IN  <<scored[i]>> \o SortByScoreDesc_Unstable(RemoveAt(scored, i))

\* list.sort(key=lambda x: -x[1]): stable, descending by score.
RECURSIVE SortByScoreDesc(_)
SortByScoreDesc(scored) ==
    IF scored = << >> THEN << >>
    ELSE LET i == CHOOSE i \in DOMAIN scored :
                      /\ \A j \in DOMAIN scored : scored[i].score >= scored[j].score
                      /\ \A j \in 1..(i - 1) : scored[j].score < scored[i].score
         IN  <<scored[i]>> \o SortByScoreDesc(RemoveAt(scored, i))

\* scoring.rank_booked_agents_scored: (agent, score) pairs, best first.
rank_booked_agents_scored(ags, time_weight, rating_weight, distance_weight, meta) ==
    LET booked == Booked(ags)
        scored == [i \in DOMAIN booked |->
                     [agent |-> booked[i],
                      score |-> calculate_score(booked[i], time_weight, rating_weight,
                                                distance_weight,
                                                MetaRating(meta, booked[i].id),
                                                MetaDistance(meta, booked[i].id))]]
    IN  SortByScoreDesc(scored)

\* Mutant of rank_booked_agents: one policy for both, the winner is the head
\* of the scored shortlist.
rank_booked_agents_ByScore(ags) ==
    IF Booked(ags) = << >> THEN 0
    ELSE rank_booked_agents_scored(ags,
             DictGet(preference_weights, "earliest_availability", 50),
             DictGet(preference_weights, "rating", 30),
             DictGet(preference_weights, "distance", 20),
             provider_metadata)[1].agent.id

\* scoring.rank_booked_agents: id of the earliest booked agent, 0 for None.
rank_booked_agents(ags) ==
    IF Booked(ags) = << >> THEN 0 ELSE MinByTime(Booked(ags)).id

\* rank_booked_agents_scored raises when a booked agent cannot be scored.
ScoringRaises(ags, meta) ==
    \E i \in DOMAIN ags :
        /\ ags[i].status = "booked" /\ Truthy(ags[i].slotTime)
        /\ ScoreRaises(ags[i], MetaRating(meta, ags[i].id), MetaDistance(meta, ags[i].id))


\* ------------------------------------------------ _evaluate_complete
\* Mutant of EvaluateReturns: the completed flag is not consulted.
EvaluateReturns_IgnoresFlag(ags, cnt) == cnt < Len(ags)

\* Mutant of EvaluateReturns: the arbitration runs as soon as one candidate
\* is counted.
EvaluateReturns_FirstFinisher(ags, cnt) == cnt < 1 \/ completed

\* Mutant of EvaluateReturns: off by one, the arbitration runs when all
\* candidates but one are counted.
EvaluateReturns_OffByOne(ags, cnt) == cnt < Len(ags) - 1 \/ completed

\* The first line of _evaluate_complete: return unless every candidate is
\* counted and the race is not yet completed.
EvaluateReturns(ags, cnt) == cnt < Len(ags) \/ completed

\* self.ranked_shortlist rows built from the scored pairs.
ShortlistRows(scored) ==
    [i \in DOMAIN scored |->
        [rank |-> i, agentId |-> scored[i].agent.id,
         slotTime |-> scored[i].agent.slotTime, score |-> scored[i].score]]

\* The demotion loop: every booked agent other than the winner is cancelled
\* (its slot kept).
DemoteOthers(ags, w) ==
    [i \in DOMAIN ags |->
        IF ags[i].id # w /\ ags[i].status = "booked"
        THEN [ags[i] EXCEPT !.status = "cancelled"]
        ELSE ags[i]]

\* The swarm:update events of the demotion loop.
DemoteEvents(ups, ags, w) ==
    [id \in DOMAIN ups |->
        IF /\ Subscribed
           /\ \E i \in DOMAIN ags : ags[i].id = id /\ id # w /\ ags[i].status = "booked"
        THEN Append(ups[id], [status |-> "cancelled", slotTime |-> AgentOf(ags, id).slotTime])
        ELSE ups[id]]

\* a.model_dump() for the fields the claims read.
Dump(ags) ==
    [i \in DOMAIN ags |->
        [id |-> ags[i].id, status |-> ags[i].status, slotTime |-> ags[i].slotTime]]

\* The swarm:completed payload.
CompletedPayload(ags, w, shortlist) ==
    [winnerId |-> w,
     winnerSlot |-> IF w = 0 THEN None ELSE AgentOf(ags, w).slotTime,
     allAgents |-> Dump(ags),
     rankedShortlist |-> shortlist]

\* An event handed to self.broadcast, with what the race object holds at
\* that moment: the completed flag, the winner, the shortlist, whether the
\* race is in the registry; agents is the snapshot a swarm:start or
\* swarm:completed payload carries.
Event(event, agent_id, status, flag, w, shortlist, registered, snapshot) ==
    [event |-> event, agentId |-> agent_id, status |-> status, completed |-> flag,
     winner |-> w, shortlist |-> shortlist, registered |-> registered,
     agents |-> snapshot]

\* Mutant of StartEvent: swarm:start is emitted before the race is put in
\* the registry.
StartEvent_BeforeRegistration(ags, sw, a2s) ==
    Event("swarm:start", 0, None, completed, winner, ranked_shortlist,
          SwarmId \in swarms
              /\ \A i \in DOMAIN ags : ags[i].id \in DOMAIN agent_to_swarm,
          Dump(ags))

\* The swarm:start event of run, emitted after the registration.
StartEvent(ags, sw, a2s) ==
    Event("swarm:start", 0, None, completed, winner, ranked_shortlist,
          SwarmId \in sw
              /\ \A i \in DOMAIN ags : ags[i].id \in DOMAIN a2s /\ a2s[ags[i].id] = SwarmId,
          Dump(ags))

\* The cancelled updates of the demotion loop, in candidate order: self.winner
\* is still the old one, the shortlist is already stored.
DemotionBroadcasts(ags, w, rows) ==
    LET losers == SelectSeq(ags, LAMBDA a : a.id # w /\ a.status = "booked")
    IN  [k \in DOMAIN losers |->
            Event("swarm:update", losers[k].id, "cancelled", TRUE, winner, rows,
                  SwarmId \in swarms, << >>)]

\* Mutant of ArbitrationEvents: swarm:completed is emitted before the
\* demotion loop runs.
ArbitrationEvents_CompletedFirst(ags, w, rows) ==
    LET win2 == IF w # 0 THEN w ELSE winner
    IN  <<Event("swarm:completed", win2, None, TRUE, win2, rows, SwarmId \in swarms,
                Dump(ags))>>
        \o (IF w # 0 THEN DemotionBroadcasts(ags, w, rows) ELSE << >>)
        \o (IF w # 0
            THEN <<Event("agent:booked", w, "booked", TRUE, w, rows, SwarmId \in swarms,
                         << >>)>>
            ELSE << >>)

\* What _evaluate_complete hands to self.broadcast after the shortlist is
\* stored: the demotions, agent:booked once self.winner is set, then
\* swarm:completed; the registry is cleaned after the last of them.
ArbitrationEvents(ags, w, rows) ==
    LET win2 == IF w # 0 THEN w ELSE winner
        ags2 == IF w # 0 THEN DemoteOthers(ags, w) ELSE ags
    IN  (IF w # 0 THEN DemotionBroadcasts(ags, w, rows) ELSE << >>)
        \o (IF w # 0
            THEN <<Event("agent:booked", w, "booked", TRUE, w, rows, SwarmId \in swarms,
                         << >>)>>
            ELSE << >>)
        \o <<Event("swarm:completed", win2, None, TRUE, win2, rows, SwarmId \in swarms,
                   Dump(ags2))>>

\* Mutant of CleanupRegistry: the race is removed, its agent ids are not.
CleanupRegistry_KeepsAgents(ags) ==
    /\ agent_to_swarm' = agent_to_swarm
    /\ swarms' = swarms \ {SwarmId}

\* SwarmOrchestrator._cleanup_registry
CleanupRegistry(ags) ==
    /\ agent_to_swarm' = [id \in DOMAIN agent_to_swarm \ Ids(ags) |-> agent_to_swarm[id]]
    /\ swarms' = swarms \ {SwarmId}

\* SwarmOrchestrator._evaluate_complete, run on the agents, the counter and
\* the update events its caller has just written.
EvaluateComplete(ags, cnt, ups) ==
    /\ completed_count' = cnt
    /\ IF EvaluateReturns(ags, cnt)
       THEN /\ agents' = ags
            /\ updates' = ups
            /\ UNCHANGED <<completed, winner, ranked_shortlist, swarms, agent_to_swarm,
                           completedEvents, broadcasts, evalBodyRuns, arbInput, arbState>>
       ELSE /\ completed' = TRUE
            /\ evalBodyRuns' = evalBodyRuns + 1
            /\ arbInput' = Dump(ags)
            /\ IF ScoringRaises(ags, provider_metadata)
               THEN \* TypeError out of calculate_score: nothing after it runs
                    /\ agents' = ags
                    /\ updates' = ups
                    /\ arbState' = "raised"
                    /\ UNCHANGED <<winner, ranked_shortlist, swarms, agent_to_swarm,
                                   completedEvents, broadcasts>>
               ELSE LET weights  == preference_weights
                        time_w   == DictGet(weights, "earliest_availability", 50)
                        rating_w == DictGet(weights, "rating", 30)
                        dist_w   == DictGet(weights, "distance", 20)
                        scored   == rank_booked_agents_scored(ags, time_w, rating_w,
                                                              dist_w, provider_metadata)
                        rows     == ShortlistRows(scored)
                        w        == rank_booked_agents(ags)
                        ags2     == IF w # 0 THEN DemoteOthers(ags, w) ELSE ags
                        win2     == IF w # 0 THEN w ELSE winner
                    IN  /\ ranked_shortlist' = rows
                        /\ agents' = ags2
                        /\ updates' = IF w # 0 THEN DemoteEvents(ups, ags, w) ELSE ups
                        /\ winner' = win2
                        /\ completedEvents' =
                               Append(completedEvents, CompletedPayload(ags2, win2, rows))
                        /\ broadcasts' = broadcasts \o ArbitrationEvents(ags, w, rows)
                        /\ CleanupRegistry(ags2)
                        /\ arbState' = "done"

\* A task created by asyncio.create_task(self._evaluate_complete()) runs.
EvaluateTask ==
    /\ evalTasks > 0
    /\ evalTasks' = evalTasks - 1
    /\ EvaluateComplete(agents, completed_count, updates)
    /\ UNCHANGED <<otherVars, pc, webhooks, spc>>

\* ------------------------------------------------ run_agent (_run_demo)
is_valid(s) == parse_time(s) >= parse_time(MIN_VALID_TIME)

\* The task's first run: the delay and the slot are drawn and the slot is
\* parsed; a slot parse_time cannot read ends the task with ValueError.
WorkerStart(i) ==
    /\ pc[i] = "start"
    /\ pc' = [pc EXCEPT ![i] = IF ParseTimeRaises(slot[i]) THEN "raised" ELSE "sleep1"]
    /\ UNCHANGED <<otherVars, raceVars, evalTasks, webhooks, spc>>

\* After the first sleep: return if the race completed, else "calling".
WorkerCall(i) ==
    /\ pc[i] = "sleep1"
    /\ IF completed
       THEN /\ pc' = [pc EXCEPT ![i] = "returned"]
            /\ UNCHANGED <<agents, updates>>
       ELSE /\ agents' = UpdateAgent(agents, i, "calling", None)
            /\ updates' = EmitUpdate(updates, i, "calling", None)
            /\ pc' = [pc EXCEPT ![i] = "sleep2"]
    /\ UNCHANGED <<otherVars, winner, ranked_shortlist, completed, completed_count,
                   swarms, agent_to_swarm, completedEvents, broadcasts, evalBodyRuns, arbInput,
                   arbState, evalTasks, webhooks, spc>>

\* After the second sleep: return if the race completed, else "negotiating".
WorkerNegotiate(i) ==
    /\ pc[i] = "sleep2"
    /\ IF completed
       THEN /\ pc' = [pc EXCEPT ![i] = "returned"]
            /\ UNCHANGED <<agents, updates>>
       ELSE /\ agents' = UpdateAgent(agents, i, "negotiating", slot[i])
            /\ updates' = EmitUpdate(updates, i, "negotiating", slot[i])
            /\ pc' = [pc EXCEPT ![i] = "sleep3"]
    /\ UNCHANGED <<otherVars, winner, ranked_shortlist, completed, completed_count,
                   swarms, agent_to_swarm, completedEvents, broadcasts, evalBodyRuns, arbInput,
                   arbState, evalTasks, webhooks, spc>>

\* Mutant of WorkerFinalStatus: the completed flag is not consulted.
WorkerFinalStatus_IgnoresFlag(s) == IF is_valid(s) THEN "booked" ELSE "rejected"

\* The status run_agent's last segment gives the candidate.
WorkerFinalStatus(s) ==
    IF completed THEN "cancelled"
    ELSE IF is_valid(s) THEN "booked"
    ELSE "rejected"

\* After the third sleep: the terminal transition, the counter, and the
\* awaited _evaluate_complete.
WorkerFinish(i) ==
    /\ pc[i] = "sleep3"
    /\ pc' = [pc EXCEPT ![i] = "done"]
    /\ EvaluateComplete(UpdateAgent(agents, i, WorkerFinalStatus(slot[i]), slot[i]),
                        completed_count + 1,
                        EmitUpdate(updates, i, WorkerFinalStatus(slot[i]), slot[i]))
    /\ UNCHANGED <<otherVars, evalTasks, webhooks, spc>>

\* ------------------------------------------- process_webhook_result
\* next(t for t in tool_calls if t.tool_name == "book_appointment"), as the
\* position in tool_calls, 0 for None.
BookTool(tool_calls) ==
    IF \E i \in DOMAIN tool_calls : tool_calls[i].tool_name = "book_appointment"
    THEN CHOOSE i \in DOMAIN tool_calls :
             /\ tool_calls[i].tool_name = "book_appointment"
             /\ \A j \in 1..(i - 1) : tool_calls[j].tool_name # "book_appointment"
    ELSE 0

\* The status and slot process_webhook_result writes for a known agent.
WebhookOutcome(call_status, offered_slot, booking_confirmed, tool_calls) ==
    IF call_status \in {"failed", "no_answer"}
    THEN [status |-> "rejected", slot |-> None]
    ELSE IF BookTool(tool_calls) = 0
    THEN [status |-> "rejected", slot |-> offered_slot]
    ELSE LET p == tool_calls[BookTool(tool_calls)].slot_time
             slot_time == IF Truthy(p) THEN p ELSE offered_slot
             valid == Truthy(slot_time) /\ is_valid(slot_time)
         IN  IF completed THEN [status |-> "cancelled", slot |-> slot_time]
             ELSE IF valid /\ booking_confirmed
             THEN [status |-> "booked", slot |-> slot_time]
             ELSE [status |-> "rejected", slot |-> slot_time]

\* Mutant of ProcessWebhookResult: the result is counted before the
\* candidate is looked up.
ProcessWebhookResult_CountsFirst(agent_id, call_status, offered_slot, booking_confirmed, tool_calls) ==
    LET o == WebhookOutcome(call_status, offered_slot, booking_confirmed, tool_calls)
    IN  /\ agents' = IF agent_id \in Ids(agents)
                     THEN UpdateAgent(agents, agent_id, o.status, o.slot)
                     ELSE agents
        /\ updates' = IF agent_id \in Ids(agents)
                      THEN EmitUpdate(updates, agent_id, o.status, o.slot)
                      ELSE updates
        /\ completed_count' = completed_count + 1
        /\ evalTasks' = evalTasks + 1

\* SwarmOrchestrator.process_webhook_result
ProcessWebhookResult(agent_id, call_status, offered_slot, booking_confirmed, tool_calls) ==
    IF agent_id \notin Ids(agents)
    THEN UNCHANGED <<agents, updates, completed_count, evalTasks>>
    ELSE LET o == WebhookOutcome(call_status, offered_slot, booking_confirmed, tool_calls)
         IN  /\ agents' = UpdateAgent(agents, agent_id, o.status, o.slot)
             /\ updates' = EmitUpdate(updates, agent_id, o.status, o.slot)
             /\ completed_count' = completed_count + 1
             /\ evalTasks' = evalTasks + 1

\* ----------------------------------------- webhook_handler (routing)
\* swarm.get_swarm: the id of the registered race, None when there is none.
get_swarm(swarm_id) == IF swarm_id \in swarms THEN swarm_id ELSE None

\* swarm.get_swarm_by_agent, as the id of the race it returns.
get_swarm_id_by_agent(agent_id) ==
    IF agent_id \in DOMAIN agent_to_swarm
    THEN get_swarm(agent_to_swarm[agent_id])
    ELSE None

\* swarm.get_swarm_by_agent: whether the agent id resolves to a race.
get_swarm_by_agent(agent_id) ==
    /\ agent_id \in DOMAIN agent_to_swarm
    /\ agent_to_swarm[agent_id] \in swarms

WebhookFormats == {"agentic", "direct", "legacy"}

\* The agent id the handler ends up with: the one given when it resolves,
\* else (not in the legacy format) the first agent of the first race that is
\* not completed; 0 when there is none.
RoutedAgent(fmt, agent_id) ==
    IF agent_id # 0 /\ get_swarm_by_agent(agent_id) THEN agent_id
    ELSE IF fmt # "legacy" /\ SwarmId \in swarms /\ ~completed /\ agents # << >>
    THEN agents[1].id
    ELSE 0

\* handle_call_status / _handle_tool_call for a book_appointment payload.
\* agent_id 0 is a missing or unknown agent id.
HandleCallStatus(fmt, agent_id, raw) ==
    /\ webhooks < MaxWebhooks
    /\ LET slot_time == normalize_slot_time(raw)
           booking_confirmed == IF fmt = "agentic" THEN is_slot_available(slot_time)
                                ELSE TRUE
           target == RoutedAgent(fmt, agent_id)
       IN  IF target # 0 /\ ~completed
           THEN /\ webhooks' = webhooks + 1
                /\ ProcessWebhookResult(target, "completed", slot_time, booking_confirmed,
                       <<[tool_name |-> "book_appointment", slot_time |-> slot_time]>>)
           ELSE UNCHANGED <<agents, updates, completed_count, evalTasks, webhooks>>
    /\ UNCHANGED <<otherVars, winner, ranked_shortlist, completed, swarms,
                   agent_to_swarm, completedEvents, broadcasts, evalBodyRuns, arbInput, arbState,
                   pc, spc>>


\* ------------------------- booking_orchestration (support-triggered race)
\* _run, the body of the background thread: an ElevenLabs-ready provider
\* whose outbound call starts waits for the webhook; anything else takes the
\* simulated booking.
SupportRun(call_started) ==
    /\ spc = "start"
    /\ spc' = IF call_started THEN "done" ELSE "update"
    /\ UNCHANGED <<raceVars, otherVars, pc, evalTasks, webhooks>>

\* _emit_support_booking_completed: swarm._update_agent(agent.id, BOOKED, slot_time)
SupportUpdate ==
    /\ spc = "update"
    /\ spc' = IF agents = << >> THEN "done" ELSE "emit"
    /\ agents' = IF agents = << >> THEN agents
                 ELSE UpdateAgent(agents, agents[1].id, "booked", support_slot)
    /\ UNCHANGED <<otherVars, winner, ranked_shortlist, completed, completed_count,
                   swarms, agent_to_swarm, completedEvents, broadcasts, updates, evalBodyRuns,
                   arbInput, arbState, pc, evalTasks, webhooks>>

\* _emit_support_booking_completed: swarm.winner, agent:booked, swarm:completed
SupportEmit ==
    /\ spc = "emit"
    /\ spc' = "cleanup"
    /\ winner' = agents[1].id
    /\ completedEvents' = Append(completedEvents,
           [winnerId |-> agents[1].id,
            winnerSlot |-> support_slot,
            allAgents |-> Dump(agents),
            rankedShortlist |-> <<[rank |-> 1, agentId |-> agents[1].id,
                                   slotTime |-> support_slot, score |-> ScoreScale]>>])
    /\ broadcasts' = broadcasts \o
           <<Event("agent:booked", agents[1].id, "booked", completed, agents[1].id,
                   ranked_shortlist, SwarmId \in swarms, << >>),
             Event("swarm:completed", agents[1].id, None, completed, agents[1].id,
                   ranked_shortlist, SwarmId \in swarms, Dump(agents))>>
    /\ UNCHANGED <<otherVars, agents, ranked_shortlist, completed, completed_count,
                   swarms, agent_to_swarm, updates, evalBodyRuns, arbInput, arbState,
                   pc, evalTasks, webhooks>>

\* _emit_support_booking_completed: swarm._cleanup_registry()
SupportCleanup ==
    /\ spc = "cleanup"
    /\ spc' = "done"
    /\ CleanupRegistry(agents)
    /\ UNCHANGED <<otherVars, agents, winner, ranked_shortlist, completed,
                   completed_count, completedEvents, broadcasts, updates, evalBodyRuns, arbInput,
                   arbState, pc, evalTasks, webhooks>>

\* ----------------------- bookings_store waitlist, waitlist_retry
\* The waitlist store and its retry run are synchronous functions called
\* from handlers of the one event loop, so each call is one atomic step.
\* An entry keeps the fields the retry run reads: id, provider_name,
\* user_id and status (preferred_times and callback_phone are only copied).

\* Entries registered, and retry runs made, in one behaviour.
MaxWaitlist == 3
MaxChecks == 3

\* Provider names handed to register_waitlist_entry: an even-length name,
\* one that is even only until it is stripped, and a blank one.
WaitlistNames == {"Dr A", " Dr Bo", ""}

WaitlistUsers == {None, "user-1"}

\* str.strip() on those names.
Strip(s) == CASE s = " Dr Bo" -> "Dr Bo" [] OTHER -> s

\* str(uuid.uuid4()): an id no earlier entry has (entries are never removed).
Uuid4(wl) == Len(wl) + 1

\* register_waitlist_entry: the new entry is appended as pending.
register_waitlist_entry(wl, provider_name, user_id) ==
    Append(wl, [id |-> Uuid4(wl), provider_name |-> Strip(provider_name),
                user_id |-> user_id, status |-> "pending"])

\* get_waitlist_entries() without a provider name: a copy of the list.
get_waitlist_entries(wl) == wl

\* mark_waitlist_entry_notified: the first entry with that id is notified.
mark_waitlist_entry_notified(wl, entry_id) ==
    [i \in DOMAIN wl |->
        IF wl[i].id = entry_id /\ \A j \in 1..(i - 1) : wl[j].id # entry_id
        THEN [wl[i] EXCEPT !.status = "notified"]
        ELSE wl[i]]

\* _mock_slots_available: slots are open for names of even length.
mock_slots_available(provider_name) == Len(provider_name) % 2 = 0

PendingEntries_Any(wl) == get_waitlist_entries(wl)

\* The entries a retry run goes through (waitlist_retry.py line 30).
PendingEntries(wl) ==
    SelectSeq(get_waitlist_entries(wl), LAMBDA e : e.status = "pending")

\* The loop of check_waitlist_and_notify over those entries: the store, the
\* list it returns and the support:waitlist_callback events handed to
\* broadcast_support (only for an entry with a user_id).
RECURSIVE NotifyLoop(_, _, _, _)
NotifyLoop(entries, wl, notified, sent) ==
    IF entries = << >>
    THEN [WAITLIST |-> wl, notified |-> notified, sent |-> sent]
    ELSE LET entry == Head(entries)
             provider_name == entry.provider_name
         IN  IF provider_name = "" \/ ~mock_slots_available(provider_name)
             THEN NotifyLoop(Tail(entries), wl, notified, sent)
             ELSE NotifyLoop(
                      Tail(entries),
                      mark_waitlist_entry_notified(wl, entry.id),
                      Append(notified, [entry_id |-> entry.id,
                                        provider_name |-> provider_name,
                                        user_id |-> entry.user_id]),
                      IF entry.user_id # None
                      THEN Append(sent, [session |-> entry.user_id,
                                         event |-> "support:waitlist_callback",
                                         provider_name |-> provider_name])
                      ELSE sent)

check_waitlist_and_notify(wl) == NotifyLoop(PendingEntries(wl), wl, << >>, << >>)

\* ------------------------------------- main: support session overrides
\* support_session_override touches _user_overrides only after its one
\* await (request.json()), get_support_overrides has no await: each is one
\* atomic step.  An override keeps action, message and ts; ts is modelled by
\* the number of the submission.

\* The slice [-10:] of support_session_override.
KeepLast == 10

\* Overrides submitted in one behaviour.
MaxSubmits == 11

OverrideSessions == {"session-1", "session-2"}

\* Requests: a body without keys from one session, a full body from the other.
OverrideRequests ==
    {[session_id |-> "session-1", action |-> None, message |-> None],
     [session_id |-> "session-2", action |-> "cancel_booking", message |-> "cancel it"]}

\* body.get(key, default); None stands for a missing key.
BodyGet(v, default) == IF v = None THEN default ELSE v

\* s[-n:]
LastN(s, n) == IF Len(s) <= n THEN s ELSE SubSeq(s, Len(s) - n + 1, Len(s))

\* _user_overrides.get(session_id, [])
PendingOverrides(uo, session_id) ==
    IF session_id \in DOMAIN uo THEN uo[session_id] ELSE << >>

\* support_session_override: append, then keep the last ten.
support_session_override(uo, req, ts) ==
    LET entry == [action |-> BodyGet(req.action, "custom"),
                  message |-> BodyGet(req.message, ""), ts |-> ts]
        kept  == LastN(Append(PendingOverrides(uo, req.session_id), entry), KeepLast)
    IN  [s \in DOMAIN uo \cup {req.session_id} |->
            IF s = req.session_id THEN kept ELSE uo[s]]

get_support_overrides_NoClear(uo, session_id) ==
    [overrides |-> PendingOverrides(uo, session_id),
     user_overrides |-> [s \in DOMAIN uo \cup {session_id} |->
                            PendingOverrides(uo, s)]]

\* get_support_overrides: what it returns and the store it leaves.
get_support_overrides(uo, session_id) ==
    [overrides |-> PendingOverrides(uo, session_id),
     user_overrides |-> [s \in DOMAIN uo \cup {session_id} |->
                            IF s = session_id THEN << >> ELSE uo[s]]]

\* The stores as the modules define them at import.
StoreInit ==
    /\ WAITLIST = << >>
    /\ notified_runs = << >>
    /\ waitlist_sent = << >>
    /\ user_overrides = EmptyDict
    /\ override_clock = 0
    /\ submitted = [s \in OverrideSessions |-> << >>]
    /\ due = {}
    /\ delivered = << >>

\* ------------------------------------------------------ initial states
\* Provider catalogs load_providers can return: the built-in fallback list
\* (no rating, no distance) and a catalog file with ratings and distances.
Catalogs == {"default", "rated"}

CatalogRating(c, i) ==
    CASE c = "default" -> NoneNum
      [] OTHER -> IF i % 2 = 1 THEN 49 ELSE 30

CatalogDistance(c, i) ==
    CASE c = "default" -> NoneNum
      [] OTHER -> IF i % 2 = 1 THEN 10 ELSE 120

\* preference_weights of the search request: absent, or an override that
\* ranks by time alone.
WeightChoices ==
    {EmptyDict, [earliest_availability |-> 100, rating |-> 0, distance |-> 0]}

\* The fields every race starts with (SwarmOrchestrator.__init__).
InitCommon ==
    /\ winner = 0
    /\ ranked_shortlist = << >>
    /\ completed = FALSE
    /\ completed_count = 0
    /\ evalTasks = 0
    /\ completedEvents = << >>
    /\ webhooks = 0
    /\ evalBodyRuns = 0
    /\ arbInput = << >>
    /\ arbState = "none"

\* No direct calculate_score call is part of a race.
NoScoreCall == score_call = None /\ score_result = NoneNum

\* SwarmOrchestrator.run up to _run_demo for a catalog of n providers:
\* agents built from the catalog and the race registered.
RunInitFor(n) ==
    /\ InitCommon
    /\ \E c \in Catalogs :
        /\ agents = [i \in 1..n |->
                        ProviderAgent(i, CatalogRating(c, i), CatalogDistance(c, i))]
        /\ provider_metadata = [i \in 1..n |->
                        [rating |-> CatalogRating(c, i),
                         distanceMiles |-> CatalogDistance(c, i)]]
        \* weights are read only when a booked agent is scored, which the
        \* fallback catalog never allows: it is paired with absent weights
        /\ preference_weights \in
               IF c = "default" THEN {EmptyDict} ELSE WeightChoices
    /\ swarms = {SwarmId}
    /\ agent_to_swarm = [i \in 1..n |-> SwarmId]
    /\ updates = [i \in 1..n |-> << >>]
    /\ broadcasts = <<StartEvent(agents, swarms, agent_to_swarm)>>
    /\ swarm2 = "none"
    /\ spc = "none"
    /\ support_slot = None
    /\ NoScoreCall
    /\ StoreInit

RunInit == RunInitFor(NumAgents)

\* The race once every run_agent task is in its first sleep, each with its
\* slot drawn; no client is subscribed.
Init ==
    /\ RunInit
    /\ pc = [i \in 1..NumAgents |-> "sleep1"]
    /\ slot \in [1..NumAgents -> WorkerSlots]
    /\ ws_connections = {}

Next ==
    \/ \E i \in DOMAIN pc : WorkerCall(i)
    \/ \E i \in DOMAIN pc : WorkerNegotiate(i)
    \/ \E i \in DOMAIN pc : WorkerFinish(i)
    \/ EvaluateTask
    \/ \E fmt \in WebhookFormats, agent_id \in 0..NumAgents, raw \in WebhookRawSlots :
           HandleCallStatus(fmt, agent_id, raw)

Spec == Init /\ [][Next]_vars

\* trigger_booking_orchestration up to the start of its thread: a one-agent
\* race, registered, with no run_agent task.
SupportInit ==
    /\ InitCommon
    /\ agents = <<ProviderAgent(1, NoneNum, NoneNum)>>
    /\ provider_metadata = EmptyDict
    /\ preference_weights = EmptyDict
    /\ swarms = {SwarmId}
    /\ agent_to_swarm = [i \in {1} |-> SwarmId]
    /\ updates = [i \in {1} |-> << >>]
    /\ pc = << >>
    /\ slot = << >>
    /\ swarm2 = "none"
    /\ spc = "start"
    /\ support_slot \in SupportSlots
    /\ ws_connections = {}
    /\ broadcasts = <<StartEvent(agents, swarms, agent_to_swarm)>>
    /\ NoScoreCall
    /\ StoreInit

SupportNext ==
    \/ \E call_started \in BOOLEAN : SupportRun(call_started)
    \/ SupportUpdate
    \/ SupportEmit
    \/ SupportCleanup
    \/ EvaluateTask
    \/ \E fmt \in WebhookFormats, agent_id \in 0..1, raw \in WebhookRawSlots :
           HandleCallStatus(fmt, agent_id, raw)

SupportSpec == SupportInit /\ [][SupportNext]_vars


\* The same race with a WebSocket client subscribed to it.
WatchedInit ==
    /\ RunInit
    /\ pc = [i \in 1..NumAgents |-> "sleep1"]
    /\ slot \in [1..NumAgents -> WorkerSlots]
    /\ ws_connections = {SwarmId}

WatchedSpec == WatchedInit /\ [][Next]_vars

\* A race driven by its run_agent tasks alone, from their creation, with the
\* slots of the simulation file and a client subscribed.
DemoInit ==
    /\ RunInit
    /\ pc = [i \in 1..NumAgents |-> "start"]
    /\ slot \in [1..NumAgents -> DemoSlots]
    /\ ws_connections = {SwarmId}

DemoNext ==
    \/ \E i \in DOMAIN pc : WorkerStart(i)
    \/ \E i \in DOMAIN pc : WorkerCall(i)
    \/ \E i \in DOMAIN pc : WorkerNegotiate(i)
    \/ \E i \in DOMAIN pc : WorkerFinish(i)

DemoSpec == DemoInit /\ [][DemoNext]_vars

\* A second search over the same catalog: SwarmOrchestrator.run registers
\* its race under the same agent ids.
Swarm2Run ==
    /\ swarm2 = "none"
    /\ swarm2' = "registered"
    /\ swarms' = swarms \cup {SwarmId2}
    /\ agent_to_swarm' = [id \in DOMAIN agent_to_swarm \cup (1..NumAgents) |->
                             IF id \in 1..NumAgents THEN SwarmId2 ELSE agent_to_swarm[id]]
    /\ UNCHANGED <<staticVars, storeVars, score_call, score_result, agents, winner,
                   ranked_shortlist, completed,
                   completed_count, completedEvents, broadcasts, updates, evalBodyRuns, arbInput,
                   arbState, pc, evalTasks, webhooks, spc>>

\* The second race's arbitration runs to its end: _cleanup_registry.
Swarm2Complete ==
    /\ swarm2 = "registered"
    /\ swarm2' = "completed"
    /\ swarms' = swarms \ {SwarmId2}
    /\ agent_to_swarm' = [id \in DOMAIN agent_to_swarm \ (1..NumAgents) |->
                             agent_to_swarm[id]]
    /\ UNCHANGED <<staticVars, storeVars, score_call, score_result, agents, winner,
                   ranked_shortlist, completed,
                   completed_count, completedEvents, broadcasts, updates, evalBodyRuns, arbInput,
                   arbState, pc, evalTasks, webhooks, spc>>

RegistryNext ==
    \/ \E i \in DOMAIN pc : WorkerCall(i)
    \/ \E i \in DOMAIN pc : WorkerNegotiate(i)
    \/ \E i \in DOMAIN pc : WorkerFinish(i)
    \/ Swarm2Run
    \/ Swarm2Complete

RegistrySpec == Init /\ [][RegistryNext]_vars

\* ------------------------- races sharing candidate ids in the registry
\* A support-triggered race for the provider that is candidate 1 of the
\* modelled race.
SwarmId3 == "swarm-3"

\* _create_support_swarm_and_register: the race, then its one agent id.
Support3Register ==
    /\ SwarmId3 \notin swarms
    /\ swarms' = swarms \cup {SwarmId3}
    /\ agent_to_swarm' = [id \in DOMAIN agent_to_swarm \cup {1} |->
                             IF id = 1 THEN SwarmId3 ELSE agent_to_swarm[id]]
    /\ UNCHANGED <<otherVars, agents, winner, ranked_shortlist, completed,
                   completed_count, completedEvents, broadcasts, updates, evalBodyRuns,
                   arbInput, arbState, pc, evalTasks, webhooks, spc>>

\* That race ends: _cleanup_registry pops its agent id, then the race.
Support3Cleanup ==
    /\ SwarmId3 \in swarms
    /\ agent_to_swarm' = [id \in DOMAIN agent_to_swarm \ {1} |-> agent_to_swarm[id]]
    /\ swarms' = swarms \ {SwarmId3}
    /\ UNCHANGED <<otherVars, agents, winner, ranked_shortlist, completed,
                   completed_count, completedEvents, broadcasts, updates, evalBodyRuns,
                   arbInput, arbState, pc, evalTasks, webhooks, spc>>

\* The modelled race, a second search over the same catalog and support
\* races for one of its providers, starting and ending in any order.
SharedNext ==
    \/ RegistryNext
    \/ Support3Register
    \/ Support3Cleanup

SharedSpec == Init /\ [][SharedNext]_vars

\* A race over whatever load_providers returned, an empty list included,
\* driven by its run_agent tasks (none for an empty list), with a client
\* subscribed.
CatalogSizes == 0..NumAgents

AnyCatalogInit ==
    \E n \in CatalogSizes :
        /\ RunInitFor(n)
        /\ pc = [i \in 1..n |-> "start"]
        /\ slot \in [1..n -> DemoSlots]
        /\ ws_connections = {SwarmId}

AnyCatalogSpec == AnyCatalogInit /\ [][DemoNext]_vars

\* ------------------------------------------- SwarmOrchestrator.run
\* The race object as __init__ leaves it, before run: no agents, nothing
\* registered, no task.  The slots the tasks will draw are fixed here.
StartInit ==
    /\ InitCommon
    /\ agents = << >>
    /\ provider_metadata = EmptyDict
    /\ preference_weights = EmptyDict
    /\ swarms = {}
    /\ agent_to_swarm = EmptyDict
    /\ updates = << >>
    /\ broadcasts = << >>
    /\ pc = << >>
    /\ slot \in [1..NumAgents -> DemoSlots]
    /\ ws_connections = {}
    /\ swarm2 = "none"
    /\ spc = "none"
    /\ support_slot = None
    /\ NoScoreCall
    /\ StoreInit

\* run up to the gather of _run_demo (no await on the way): agents and
\* metadata from the catalog, the weights, the registration, swarm:start,
\* then one run_agent task per agent.
Run ==
    /\ agents = << >>
    /\ broadcasts = << >>
    /\ \E c \in Catalogs :
        LET ags == [i \in 1..NumAgents |->
                       ProviderAgent(i, CatalogRating(c, i), CatalogDistance(c, i))]
            sw  == swarms \cup {SwarmId}
            a2s == [id \in DOMAIN agent_to_swarm \cup Ids(ags) |->
                       IF id \in Ids(ags) THEN SwarmId ELSE agent_to_swarm[id]]
        IN  /\ agents' = ags
            /\ provider_metadata' = [i \in 1..NumAgents |->
                                        [rating |-> CatalogRating(c, i),
                                         distanceMiles |-> CatalogDistance(c, i)]]
            /\ preference_weights' \in
                   IF c = "default" THEN {EmptyDict} ELSE WeightChoices
            /\ swarms' = sw
            /\ agent_to_swarm' = a2s
            /\ broadcasts' = Append(broadcasts, StartEvent(ags, sw, a2s))
    /\ updates' = [i \in 1..NumAgents |-> << >>]
    /\ pc' = [i \in 1..NumAgents |-> "start"]
    /\ UNCHANGED <<winner, ranked_shortlist, completed, completed_count,
                   completedEvents, evalBodyRuns, arbInput, arbState, slot,
                   support_slot, ws_connections, swarm2, score_call, score_result,
                   storeVars,
                   evalTasks, webhooks, spc>>

\* main.websocket_endpoint: a client connects to the race's channel (the
\* snapshot it is sent on connecting is not kept).
Subscribe ==
    /\ SwarmId \notin ws_connections
    /\ ws_connections' = ws_connections \cup {SwarmId}
    /\ UNCHANGED <<raceVars, provider_metadata, preference_weights, slot, support_slot,
                   swarm2, score_call, score_result, storeVars, pc, evalTasks,
                   webhooks, spc>>

StartNext ==
    \/ Run
    \/ Subscribe
    \/ \E i \in DOMAIN pc : WorkerStart(i)
    \/ \E i \in DOMAIN pc : WorkerCall(i)
    \/ \E i \in DOMAIN pc : WorkerNegotiate(i)
    \/ \E i \in DOMAIN pc : WorkerFinish(i)

StartSpec == StartInit /\ [][StartNext]_vars

\* --------------------------------- calculate_score called on its own
\* Arguments of a direct call: slots before, at, inside, at the end of and
\* after the 08:00-17:00 window and a missing one; ratings in tenths of a
\* star; distances in tenths of a mile; weights in hundredths (the defaults,
\* each factor alone, all three at 1.0, all zero).
ScoreSlots == {None, "7:00 AM", "8:00 AM", "9:30 AM", "12:00 PM", "5:00 PM", "6:00 PM"}

ScoreRatings == {0, 45, 50}

ScoreDistances == {0, 50, 100, 120}

ScoreWeights ==
    {<<50, 30, 20>>, <<100, 0, 0>>, <<0, 100, 0>>, <<0, 0, 100>>, <<100, 100, 100>>,
     <<0, 0, 0>>}

ScoreCalls ==
    [slotTime : ScoreSlots, rating_value : ScoreRatings, distance_miles : ScoreDistances,
     weights : ScoreWeights]

\* No race: only the arguments of the call are drawn.
ScoreInit ==
    /\ InitCommon
    /\ agents = << >>
    /\ provider_metadata = EmptyDict
    /\ preference_weights = EmptyDict
    /\ swarms = {}
    /\ agent_to_swarm = EmptyDict
    /\ updates = << >>
    /\ broadcasts = << >>
    /\ pc = << >>
    /\ slot = << >>
    /\ ws_connections = {}
    /\ swarm2 = "none"
    /\ spc = "none"
    /\ support_slot = None
    /\ score_call \in ScoreCalls
    /\ score_result = NoneNum
    /\ StoreInit

\* calculate_score(provider, time_weight, rating_weight, distance_weight,
\* rating_value, distance_miles) on a booked provider with that slot.
ScoreCall ==
    /\ score_result = NoneNum
    /\ score_result' =
           calculate_score([ProviderAgent(1, NoneNum, NoneNum) EXCEPT
                                !.status = "booked", !.slotTime = score_call.slotTime],
                           score_call.weights[1], score_call.weights[2],
                           score_call.weights[3], score_call.rating_value,
                           score_call.distance_miles)
    /\ UNCHANGED <<raceVars, staticVars, swarm2, pc, evalTasks, webhooks, spc,
                   score_call, storeVars>>

ScoreSpec == ScoreInit /\ [][ScoreCall]_vars

\* ------------------------------------------------- main.get_results
\* Race ids a client can ask about: the modelled race and one no search
\* ever registered.
QueryIds == {SwarmId, "swarm-0"}

\* The AppointmentResult returned when get_swarm finds nothing.
NotFoundResult(swarm_id) ==
    [swarm_id |-> swarm_id, status |-> "unknown", total_results |-> 0,
     best_result |-> 0, agents |-> << >>, ranked_shortlist |-> << >>]

\* Mutant of get_results: the race object is used without the registry
\* lookup being tested.
get_results_NoLookup(swarm_id) ==
    [swarm_id |-> swarm_id,
     status |-> IF completed THEN "completed" ELSE "running",
     total_results |-> Len(Booked(agents)),
     best_result |-> winner,
     agents |-> Dump(agents),
     ranked_shortlist |-> ranked_shortlist]

\* main.get_results; best_result is the winner's id, 0 for None.
get_results(swarm_id) ==
    IF get_swarm(swarm_id) = None
    THEN NotFoundResult(swarm_id)
    ELSE [swarm_id |-> swarm_id,
          status |-> IF completed THEN "completed" ELSE "running",
          total_results |-> Len(Booked(agents)),
          best_result |-> winner,
          agents |-> Dump(agents),
          ranked_shortlist |-> ranked_shortlist]

\* A race of three providers whose receptionists offer 9:00 AM, 10:00 AM and
\* 11:00 AM, driven by its run_agent tasks, with a client subscribed.
ScenarioSlots == <<"9:00 AM", "10:00 AM", "11:00 AM">>

ScenarioInit ==
    /\ RunInitFor(Len(ScenarioSlots))
    /\ pc = [i \in DOMAIN ScenarioSlots |-> "start"]
    /\ slot = ScenarioSlots
    /\ ws_connections = {SwarmId}

ScenarioSpec == ScenarioInit /\ [][DemoNext]_vars

\* process_webhook_result called directly, with any agent id, call status,
\* offered slot, confirmation flag and tool list (the failed / no_answer and
\* no-tool branches included).
DirectToolCalls ==
    {<< >>, <<[tool_name |-> "book_appointment", slot_time |-> None]>>}

DirectCallStatuses == {"completed", "failed"}

DirectOfferedSlots == {None, "2:15 PM"}

DirectWebhook(agent_id, call_status, offered_slot, booking_confirmed, tool_calls) ==
    /\ webhooks < MaxWebhooks
    /\ webhooks' = webhooks + 1
    /\ ProcessWebhookResult(agent_id, call_status, offered_slot, booking_confirmed,
                            tool_calls)
    /\ UNCHANGED <<otherVars, winner, ranked_shortlist, completed, swarms,
                   agent_to_swarm, completedEvents, broadcasts, evalBodyRuns, arbInput, arbState,
                   pc, spc>>

\* Agent ids a caller can pass: the candidates, and two that are not.
DirectAgentIds == 0..(NumAgents + 1)

\* The results arrive while every run_agent task is still in its first sleep.
DirectNext ==
    \/ EvaluateTask
    \/ \E agent_id \in DirectAgentIds, call_status \in DirectCallStatuses,
          offered_slot \in DirectOfferedSlots, booking_confirmed \in BOOLEAN,
          tool_calls \in DirectToolCalls :
           DirectWebhook(agent_id, call_status, offered_slot, booking_confirmed,
                         tool_calls)

DirectSpec == WatchedInit /\ [][DirectNext]_vars

\* ------------------------------ the stores driven on their own
\* The process with no race started.
IdleInit ==
    /\ InitCommon
    /\ agents = << >>
    /\ provider_metadata = EmptyDict
    /\ preference_weights = EmptyDict
    /\ swarms = {}
    /\ agent_to_swarm = EmptyDict
    /\ updates = << >>
    /\ broadcasts = << >>
    /\ pc = << >>
    /\ slot = << >>
    /\ ws_connections = {}
    /\ swarm2 = "none"
    /\ spc = "none"
    /\ support_slot = None
    /\ NoScoreCall
    /\ StoreInit

raceIdle == <<raceVars, staticVars, swarm2, pc, evalTasks, webhooks, spc,
              score_call, score_result>>

\* The register_waitlist tool of the support agent.
RegisterWaitlist ==
    /\ Len(WAITLIST) < MaxWaitlist
    /\ \E provider_name \in WaitlistNames, user_id \in WaitlistUsers :
           WAITLIST' = register_waitlist_entry(WAITLIST, provider_name, user_id)
    /\ UNCHANGED <<raceIdle, notified_runs, waitlist_sent, overrideVars>>

\* POST /support-agent/waitlist-check: one run of check_waitlist_and_notify.
CheckWaitlist ==
    /\ Len(notified_runs) < MaxChecks
    /\ LET r == check_waitlist_and_notify(WAITLIST)
       IN  /\ WAITLIST' = r.WAITLIST
           /\ notified_runs' = Append(notified_runs, r.notified)
           /\ waitlist_sent' = waitlist_sent \o r.sent
    /\ UNCHANGED <<raceIdle, overrideVars>>

WaitlistNext == RegisterWaitlist \/ CheckWaitlist

WaitlistSpec == IdleInit /\ [][WaitlistNext]_vars

\* POST /api/support/session/{session_id}/override.  submitted holds, per
\* session, every ts submitted since the session was last polled.
SubmitOverride ==
    /\ override_clock < MaxSubmits
    /\ \E req \in OverrideRequests :
        LET ts == override_clock + 1
        IN  /\ user_overrides' = support_session_override(user_overrides, req, ts)
            /\ override_clock' = ts
            /\ submitted' = [submitted EXCEPT ![req.session_id] = Append(@, ts)]
            /\ delivered' = Append(delivered, 0)
    /\ UNCHANGED <<raceIdle, waitlistVars, due>>

\* GET /api/support/session/{session_id}/overrides.  delivered counts, per
\* ts, the polls that returned it; due holds the ts that were among the
\* last ten submitted to their session when it was polled.
PollOverrides ==
    \E session_id \in OverrideSessions :
        LET r == get_support_overrides(user_overrides, session_id)
            returned == {r.overrides[i].ts : i \in DOMAIN r.overrides}
        IN  /\ user_overrides' = r.user_overrides
            /\ delivered' = [t \in DOMAIN delivered |->
                                IF t \in returned THEN delivered[t] + 1
                                ELSE delivered[t]]
            /\ due' = due \cup {submitted[session_id][i] :
                                   i \in {j \in DOMAIN submitted[session_id] :
                                            j > Len(submitted[session_id]) - KeepLast}}
            /\ submitted' = [submitted EXCEPT ![session_id] = << >>]
            /\ UNCHANGED <<raceIdle, waitlistVars, override_clock>>

OverrideNext == SubmitOverride \/ PollOverrides

OverrideSpec == IdleInit /\ [][OverrideNext]_vars

\* ================================================================ claims
StatusOf(i) == agents[i].status

\* Every run_agent task has ended and no _evaluate_complete task is pending.
Quiescent ==
    /\ \A i \in DOMAIN pc : pc[i] \in {"done", "returned"}
    /\ evalTasks = 0

\* Positions of the agents that were booked when the arbitration body started.
ArbBooked == {i \in DOMAIN arbInput : arbInput[i].status = "booked"}

\* C1: the body of _evaluate_complete is entered at most once per race, and
\* the coordinator emits swarm:completed at most once, whatever the order of
\* worker completions and external confirmations.
C1_ArbitrationAtMostOnce ==
    /\ evalBodyRuns <= 1
    /\ Len(completedEvents) <= 1

\* C1 witness: the race ended after an external confirmation and the workers
\* made more terminal transitions than there are candidates, so the check
\* was invoked again after its body had run.
C1_Witness ==
    /\ Quiescent
    /\ evalBodyRuns = 1
    /\ webhooks > 0
    /\ completed_count > Len(agents)

\* C2: the completion counter never exceeds the number of candidates.
C2_CounterAtMostN == completed_count <= Len(agents)

\* C3: every swarm:completed payload shows all candidates in a terminal
\* status.
C3_FinalSnapshotAllTerminal ==
    \A k \in DOMAIN completedEvents :
        \A i \in DOMAIN completedEvents[k].allAgents :
            completedEvents[k].allAgents[i].status \in Terminal

\* C4: once every worker has ended and no evaluation is pending, the race is
\* complete: all candidates terminal, the arbitration body run to its end,
\* swarm:completed emitted and the race deregistered.
C4_RaceCompletes ==
    Quiescent =>
        /\ \A i \in DOMAIN agents : StatusOf(i) \in Terminal
        /\ arbState = "done"
        /\ Len(completedEvents) >= 1
        /\ SwarmId \notin swarms

\* C5: a booked candidate's slot is at or after 9:30 AM.
C5_BookedNotBeforeFloor ==
    \A i \in DOMAIN agents :
        StatusOf(i) = "booked" => parse_time(agents[i].slotTime) >= 570

\* C6: once the completed flag is set no candidate other than the winner is
\* booked, in the state and in every swarm:completed snapshot.
C6_OnlyWinnerBooked ==
    /\ completed =>
           \A i \in DOMAIN agents : StatusOf(i) = "booked" => agents[i].id = winner
    /\ \A k \in DOMAIN completedEvents :
           \A i \in DOMAIN completedEvents[k].allAgents :
               completedEvents[k].allAgents[i].status = "booked"
                   => completedEvents[k].allAgents[i].id = completedEvents[k].winnerId

\* C7: when the arbitration pass has chosen, the winner is the booked
\* candidate with the earliest slot, the first such in candidate order, and
\* there is no winner exactly when nobody was booked; weights, ratings and
\* distances play no part.
C7_WinnerIsEarliestBooked ==
    arbState = "done" =>
        /\ (winner = 0) <=> (ArbBooked = {})
        /\ winner # 0 =>
              /\ winner \in ArbBooked
              /\ \A i \in ArbBooked :
                    /\ parse_time(arbInput[winner].slotTime)
                           <= parse_time(arbInput[i].slotTime)
                    /\ parse_time(arbInput[i].slotTime)
                           = parse_time(arbInput[winner].slotTime) => winner <= i

\* C7 witness: two booked candidates, the later one in candidate order wins
\* with the earlier slot, and the shortlist is headed by the other one.
C7_Witness ==
    /\ arbState = "done"
    /\ Cardinality(ArbBooked) >= 2
    /\ winner > 1
    /\ 1 \in ArbBooked
    /\ ranked_shortlist[1].agentId # winner

\* C8: the ranked shortlist lists exactly the candidates booked when the
\* arbitration ran, each once with ranks 1..k, by non-increasing score, equal
\* scores in candidate order.
C8_ShortlistRanked ==
    arbState = "done" =>
        /\ {ranked_shortlist[k].agentId : k \in DOMAIN ranked_shortlist} = ArbBooked
        /\ Len(ranked_shortlist) = Cardinality(ArbBooked)
        /\ \A k \in DOMAIN ranked_shortlist :
              /\ ranked_shortlist[k].rank = k
              /\ ranked_shortlist[k].slotTime = arbInput[ranked_shortlist[k].agentId].slotTime
        /\ \A k \in DOMAIN ranked_shortlist : \A l \in DOMAIN ranked_shortlist :
              k < l =>
                 /\ ranked_shortlist[k].score >= ranked_shortlist[l].score
                 /\ ranked_shortlist[k].score = ranked_shortlist[l].score
                        => ranked_shortlist[k].agentId < ranked_shortlist[l].agentId

\* C8 witness: a shortlist of two with equal scores.
C8_Witness ==
    /\ arbState = "done"
    /\ Len(ranked_shortlist) >= 2
    /\ ranked_shortlist[1].score = ranked_shortlist[2].score

StatusRank(st) ==
    CASE st \in {"idle", "searching"} -> 0
      [] st = "calling" -> 1
      [] st = "negotiating" -> 2
      [] OTHER -> 3

\* C10: a candidate's status only moves forward, and a terminal status
\* changes only by the demotion booked -> cancelled.
C10_StatusMonotonic ==
    [][\A i \in DOMAIN agents :
          /\ StatusRank(agents'[i].status) >= StatusRank(agents[i].status)
          /\ agents[i].status \in Terminal =>
                \/ agents'[i].status = agents[i].status
                \/ agents[i].status = "booked" /\ agents'[i].status = "cancelled"]_vars

\* Whether the agent id of a webhook resolves to a race that is registered
\* and not completed; 0 is a missing or unknown id.
ResolvesToLiveRace(agent_id) ==
    /\ agent_id # 0
    /\ get_swarm_id_by_agent(agent_id) = SwarmId
    /\ ~completed

\* C11: a book_appointment webhook whose agent id does not resolve to a live
\* race is dropped: no candidate changes status or slot, the completion
\* counter stays, no evaluation is scheduled and no event is sent.
C11_UnroutableDropped ==
    [][\A fmt \in WebhookFormats, agent_id \in 0..NumAgents, raw \in WebhookRawSlots :
          (HandleCallStatus(fmt, agent_id, raw) /\ ~ResolvesToLiveRace(agent_id))
              => UNCHANGED <<agents, completed_count, evalTasks, updates,
                             completedEvents>>]_vars

\* The races that are registered and not completed.
LiveRaces ==
    (IF SwarmId \in swarms /\ ~completed THEN {SwarmId} ELSE {})
        \cup (IF swarm2 = "registered" THEN {SwarmId2} ELSE {})

\* C12: while a race over the catalog is registered and not completed,
\* get_swarm_by_agent returns such a race for every candidate id, also with
\* two races over the same catalog and after one of them has deregistered.
C12_LookupFindsLiveRace ==
    LiveRaces # {} =>
        \A a \in 1..NumAgents : get_swarm_id_by_agent(a) \in LiveRaces

\* C13: once the body of _evaluate_complete has run, get_swarm of the race
\* returns None and no agent id of the registry maps to the race; a lookup
\* of a removed or unknown id returns None.
C13_DeregisteredAfterArbitration ==
    evalBodyRuns >= 1 =>
        /\ get_swarm(SwarmId) = None
        /\ \A a \in DOMAIN agent_to_swarm : agent_to_swarm[a] # SwarmId
        /\ \A a \in 0..(NumAgents + 1) : get_swarm_id_by_agent(a) = None

\* Every run_agent task has ended: by its last line, by an early return or
\* by an exception.
TasksEnded == \A i \in DOMAIN pc : pc[i] \in {"done", "returned", "raised"}

\* C14: when a worker has raised and all workers have ended (no webhook
\* having arrived), every candidate is in a terminal status, the completion
\* counter has reached the number of candidates and the race is completed.
C14_WorkerErrorStillCompletes ==
    (TasksEnded /\ \E i \in DOMAIN pc : pc[i] = "raised") =>
        /\ \A i \in DOMAIN agents : StatusOf(i) \in Terminal
        /\ completed_count >= Len(agents)
        /\ completed

\* The provider snapshot has no rating or no distance for the candidate.
MetaAbsent(id) ==
    \/ MetaRating(provider_metadata, id) = NoneNum
    \/ MetaDistance(provider_metadata, id) = NoneNum

\* C15: when the snapshot lacks a candidate's rating or distance and the
\* arbitration body has run, the body ran to its end (swarm:completed
\* emitted, race deregistered) and every booked candidate was scored with
\* the fallbacks 4.5 stars and 5.0 miles.
C15_MissingRatingFallback ==
    (evalBodyRuns >= 1 /\ \E i \in DOMAIN agents : MetaAbsent(agents[i].id)) =>
        /\ arbState = "done"
        /\ Len(completedEvents) = 1
        /\ SwarmId \notin swarms
        /\ \A i \in ArbBooked :
              MetaRating(provider_metadata, agents[i].id) = NoneNum
                  => ScoreRating(agents[i], NoneNum) = 45
        /\ \A i \in ArbBooked :
              MetaDistance(provider_metadata, agents[i].id) = NoneNum
                  => ScoreDistance(agents[i], NoneNum) = 50

\* A calling or negotiating event of the candidate has been sent.
HasProgressEvent(i) ==
    \E k \in DOMAIN updates[i] : updates[i][k].status \in {"calling", "negotiating"}

\* A booked, rejected or cancelled event of the candidate has been sent.
HasTerminalEvent(i) ==
    \E k \in DOMAIN updates[i] : updates[i][k].status \in Terminal

\* C16: once every worker has ended and no evaluation is pending, each
\* candidate for which a calling or negotiating event was emitted has had a
\* terminal-status event emitted, also when the completed flag was set while
\* its worker was in a stage delay.
C16_TerminalEventFollows ==
    Quiescent =>
        \A i \in 1..NumAgents : HasProgressEvent(i) => HasTerminalEvent(i)

\* The candidates as the workers alone leave them before any demotion, from
\* the slots drawn: searching when the slot cannot be parsed, booked when it
\* is at or after 9:30 AM, rejected otherwise.
WorkersOutcome ==
    [i \in DOMAIN agents |->
        [agents[i] EXCEPT
            !.status = IF ParseTimeRaises(slot[i]) THEN "searching"
                       ELSE IF is_valid(slot[i]) THEN "booked"
                       ELSE "rejected",
            !.slotTime = IF ParseTimeRaises(slot[i]) THEN None ELSE slot[i]]]

\* The arbitration of a workers-only race runs to its end: every worker
\* finished and the booked candidates can be scored.
ArbitrationExpected ==
    /\ \A i \in DOMAIN slot : ~ParseTimeRaises(slot[i])
    /\ ~ScoringRaises(WorkersOutcome, provider_metadata)

\* The candidate with the earliest valid slot, the first of them in
\* candidate order; 0 when no slot is valid.
EarliestValid ==
    LET valid == {i \in DOMAIN slot : ~ParseTimeRaises(slot[i]) /\ is_valid(slot[i])}
    IN  IF valid = {} THEN 0
        ELSE CHOOSE i \in valid :
                 \A j \in valid :
                     \/ parse_time(slot[i]) < parse_time(slot[j])
                     \/ parse_time(slot[i]) = parse_time(slot[j]) /\ i <= j

ExpectedWinner == IF ArbitrationExpected THEN EarliestValid ELSE 0

ExpectedStatus(i) ==
    IF /\ ExpectedWinner # 0
       /\ i # ExpectedWinner
       /\ WorkersOutcome[i].status = "booked"
    THEN "cancelled"
    ELSE WorkersOutcome[i].status

ExpectedShortlist ==
    IF ArbitrationExpected
    THEN ShortlistRows(rank_booked_agents_scored(WorkersOutcome,
             DictGet(preference_weights, "earliest_availability", 50),
             DictGet(preference_weights, "rating", 30),
             DictGet(preference_weights, "distance", 20),
             provider_metadata))
    ELSE << >>

\* C17: in a race driven by its workers alone, once all of them have ended
\* the winner, every candidate's status and the ranked shortlist are the
\* ones the drawn slots determine, whatever the order the workers ran in.
C17_OutcomeIndependentOfOrder ==
    TasksEnded =>
        /\ winner = ExpectedWinner
        /\ \A i \in DOMAIN agents : StatusOf(i) = ExpectedStatus(i)
        /\ ranked_shortlist = ExpectedShortlist

\* C17 witness: both candidates drew a valid slot, the second the earlier
\* one; it won and the first was demoted.
C17_Witness ==
    /\ TasksEnded
    /\ arbState = "done"
    /\ winner = 2
    /\ StatusOf(1) = "cancelled"
    /\ Len(ranked_shortlist) >= 2

\* C18: a candidate's slotTime, once non-empty, stays non-empty through
\* every later _update_agent, also one that passes no slot.
C18_SlotNeverCleared ==
    [][\A i \in DOMAIN agents :
          Truthy(agents[i].slotTime) => Truthy(agents'[i].slotTime)]_vars

\* C18 witness: a candidate that a webhook gave a slot was then set to
\* calling by its worker, which passes slot_time None, and kept the slot.
C18_Witness ==
    \E i \in DOMAIN agents :
        /\ StatusOf(i) = "calling"
        /\ Truthy(agents[i].slotTime)

\* The events of candidate i start with calling (no slot), negotiating (its
\* slot) and one terminal status (its slot), in this order.
StagesInOrder(i) ==
    LET u == updates[i] IN
    /\ Len(u) >= 1 => u[1] = [status |-> "calling", slotTime |-> None]
    /\ Len(u) >= 2 => u[2] = [status |-> "negotiating", slotTime |-> slot[i]]
    /\ Len(u) >= 3 => u[3].status \in Terminal /\ u[3].slotTime = slot[i]
    /\ pc[i] = "start"  => Len(u) = 0
    /\ pc[i] = "raised" => Len(u) = 0
    /\ pc[i] = "sleep1" => Len(u) = 0
    /\ pc[i] = "sleep2" => Len(u) = 1
    /\ pc[i] = "sleep3" => Len(u) = 2
    /\ pc[i] = "done"   => Len(u) >= 3

\* C19 as stated: in a workers-only race each candidate's events are exactly
\* one calling, one negotiating and then one terminal-status event.
C19_OneEventPerStage ==
    \A i \in DOMAIN updates : StagesInOrder(i) /\ Len(updates[i]) <= 3

\* C19 amended: in a workers-only race each candidate's events are one
\* calling event (no slot), one negotiating event (slot attached) and one
\* terminal-status event from its worker, in this order; the only event
\* after them is one cancelled event, for a booked candidate the
\* arbitration demoted.
C19_StagesThenDemotion ==
    \A i \in DOMAIN updates :
        /\ StagesInOrder(i)
        /\ Len(updates[i]) <= 4
        /\ Len(updates[i]) = 4 =>
              /\ updates[i][3].status = "booked"
              /\ updates[i][4] = [status |-> "cancelled", slotTime |-> slot[i]]
              /\ arbState = "done" /\ winner # 0 /\ winner # i
        /\ (arbState = "done" /\ winner # i /\ Len(updates[i]) >= 3
                /\ updates[i][3].status = "booked")
              => Len(updates[i]) = 4

\* C19 witness: all workers have ended, one candidate has its three events
\* and another, demoted, has a fourth.
C19_Witness ==
    /\ TasksEnded
    /\ \E i \in DOMAIN updates : Len(updates[i]) = 4
    /\ \E i \in DOMAIN updates : Len(updates[i]) = 3 /\ updates[i][3].status = "booked"

\* C20: a slot before 9:30 AM ends its candidate as rejected, whatever the
\* state of the race: the worker that finishes with such a slot, and a
\* webhook carrying one for a candidate of the race, set the status to
\* rejected, emit the rejected update and add one to the completion counter.
C20_EarlySlotDeclined ==
    [][/\ \A i \in DOMAIN pc :
             (pc[i] = "sleep3" /\ pc'[i] = "done" /\ ~is_valid(slot[i])) =>
                 /\ agents'[i].status = "rejected"
                 /\ updates'[i] = Append(updates[i],
                                         [status |-> "rejected", slotTime |-> slot[i]])
                 /\ completed_count' = completed_count + 1
       /\ \A fmt \in WebhookFormats, a \in 1..NumAgents, raw \in WebhookRawSlots :
             (/\ HandleCallStatus(fmt, a, raw)
              /\ ResolvesToLiveRace(a)
              /\ ~is_valid(normalize_slot_time(raw))) =>
                 /\ agents'[a].status = "rejected"
                 /\ updates'[a] = Append(updates[a],
                        [status |-> "rejected", slotTime |-> normalize_slot_time(raw)])
                 /\ completed_count' = completed_count + 1]_vars


\* C21: process_webhook_result called with an agent id that is not a
\* candidate of the race changes nothing: no candidate's status or slot,
\* not completed_count, completed, winner or ranked_shortlist, no event is
\* emitted, no arbitration is scheduled or run.
C21_UnknownAgentNoOp ==
    [][\A agent_id \in DirectAgentIds \ Ids(agents), call_status \in DirectCallStatuses,
          offered_slot \in DirectOfferedSlots, booking_confirmed \in BOOLEAN,
          tool_calls \in DirectToolCalls :
            DirectWebhook(agent_id, call_status, offered_slot, booking_confirmed,
                          tool_calls)
            => UNCHANGED <<agents, completed_count, completed, winner, ranked_shortlist,
                           updates, completedEvents, evalTasks, evalBodyRuns,
                           arbState>>]_vars

\* A result for an unknown agent id was handed in (every result for a
\* candidate is counted) and the race is as it was, its workers under way.
C21_Witness ==
    /\ webhooks > 0
    /\ completed_count = 0
    /\ evalTasks = 0
    /\ \A i \in DOMAIN agents : agents[i].status = "searching" /\ updates[i] = << >>


\* The id of the scenario's candidate whose receptionist offered slot s.
ScenarioAgent(s) == CHOOSE i \in DOMAIN ScenarioSlots : ScenarioSlots[i] = s

\* C22: in a race of three candidates offering 9:00 AM, 10:00 AM and
\* 11:00 AM, once every worker has ended the 9:00 candidate is rejected, the
\* 10:00 candidate is the winner (and booked), the 11:00 candidate is
\* cancelled, and the ranked shortlist holds exactly the 10:00 and the 11:00
\* candidates, best score first.
C22_ThreeCandidateRace ==
    TasksEnded =>
        /\ agents[ScenarioAgent("9:00 AM")].status = "rejected"
        /\ winner = ScenarioAgent("10:00 AM")
        /\ agents[ScenarioAgent("10:00 AM")].status = "booked"
        /\ agents[ScenarioAgent("11:00 AM")].status = "cancelled"
        /\ Len(ranked_shortlist) = 2
        /\ {ranked_shortlist[k].agentId : k \in DOMAIN ranked_shortlist}
               = {ScenarioAgent("10:00 AM"), ScenarioAgent("11:00 AM")}
        /\ \A k \in 1..(Len(ranked_shortlist) - 1) :
               ranked_shortlist[k].score >= ranked_shortlist[k + 1].score


\* C23: for a race id that is not in the registry (never registered, or
\* completed and deregistered) get_results answers with status "unknown",
\* total_results 0, no agents and no winner.
C23_NotFoundResult ==
    \A id \in QueryIds :
        id \notin swarms =>
            /\ get_results(id).status = "unknown"
            /\ get_results(id).total_results = 0
            /\ get_results(id).agents = << >>
            /\ get_results(id).best_result = 0

\* The race has completed with a winner and is deregistered: the query no
\* longer finds it.
C23_Witness ==
    /\ arbState = "done"
    /\ winner # 0
    /\ SwarmId \notin swarms
    /\ get_results(SwarmId) = NotFoundResult(SwarmId)


\* The share of the time weight a slot earns, in 540ths (one per minute
\* before 17:00), as the specification tabulates it.
TimeShare(s) ==
    CASE s = "8:00 AM"  -> 540
      [] s = "9:30 AM"  -> 450
      [] s = "12:00 PM" -> 300
      [] OTHER          -> 0

\* The weighted sum of the three components for the direct call, over
\* ScoreScale, before any clamping.
WeightedSum ==
    score_call.weights[1] * TimeShare(score_call.slotTime) * 5
    + score_call.weights[2] * score_call.rating_value * 54
    + score_call.weights[3] * Max(0, 100 - score_call.distance_miles) * 27

\* C24: for every slot, rating in [0,5], distance >= 0 and non-negative
\* weights, calculate_score returns a value in [0,1], and exactly 1.0 when
\* the weighted sum exceeds 1.
C24_ScoreInUnitInterval ==
    score_result # NoneNum =>
        /\ score_result >= 0
        /\ score_result <= ScoreScale
        /\ WeightedSum > ScoreScale => score_result = ScoreScale

\* A call whose weights do not sum to 1 and whose weighted sum exceeds 1
\* has returned 1.0.
C24_Witness ==
    /\ score_result = ScoreScale
    /\ WeightedSum > ScoreScale
    /\ score_call.weights[1] + score_call.weights[2] + score_call.weights[3] > 100


\* C25: the time component is linear over 08:00-17:00: time_weight x 1.0
\* at 08:00, time_weight x (1 - (mins - 480)/540) inside the window, 0 at
\* 17:00, before 08:00, after 17:00 and for a missing slot (seen on calls
\* whose other two weights are 0); a distance of 10 miles or more adds
\* nothing to the score.
C25_TimeLinearDistanceCutoff ==
    score_result # NoneNum =>
        /\ (score_call.weights[2] = 0 /\ score_call.weights[3] = 0)
               => score_result * 540
                      = score_call.weights[1] * TimeShare(score_call.slotTime)
                            * (ScoreScale \div 100)
        /\ score_call.distance_miles >= 100
               => score_result
                      = Min(ScoreScale,
                            score_call.weights[1] * TimeShare(score_call.slotTime) * 5
                            + score_call.weights[2] * score_call.rating_value * 54)

\* A 9:30 AM slot scored on time alone has earned 450/540 of the weight, and
\* so has not been scored as the opening of the window.
C25_Witness ==
    /\ score_call.slotTime = "9:30 AM"
    /\ score_call.weights = <<100, 0, 0>>
    /\ score_result * 540 = ScoreScale * 450


\* The worked example: default weights, slot 9:30 AM, rating 4.5, distance 5.
ExampleCall ==
    /\ score_call.slotTime = "9:30 AM"
    /\ score_call.rating_value = 45
    /\ score_call.distance_miles = 50
    /\ score_call.weights = <<50, 30, 20>>

\* C26: the worked example scores 0.87 up to rounding (0.865 <= score <= 0.875).
C26_ExampleScores087 ==
    (ExampleCall /\ score_result # NoneNum) =>
        /\ 200 * score_result >= 173 * ScoreScale
        /\ 200 * score_result <= 175 * ScoreScale

\* C26 as the code has it: the worked example scores 0.787 up to rounding
\* (0.7865 <= score <= 0.7875), the 9:30 slot earning 450/540 of the time
\* weight.
C26_ExampleScores0787 ==
    (ExampleCall /\ score_result # NoneNum) =>
        /\ 2000 * score_result >= 1573 * ScoreScale
        /\ 2000 * score_result <= 1575 * ScoreScale

\* The worked example has been scored, below 0.79.
C26_Witness ==
    /\ ExampleCall
    /\ score_result # NoneNum
    /\ 100 * score_result < 79 * ScoreScale


\* The events of the arbitration pass: what follows swarm:start.
ArbLog == SubSeq(broadcasts, 2, Len(broadcasts))

\* C27: of one arbitration pass, every event is emitted with the completed
\* flag set, the shortlist stored and the race still registered; the
\* cancelled updates, one for every booked non-winner, come first and find
\* no winner recorded yet; agent:booked follows with the winner recorded;
\* swarm:completed is the last event, and after it the race is deregistered.
C27_ArbitrationOrder ==
    /\ arbState # "done" => ArbLog = << >>
    /\ arbState = "done" =>
        /\ ArbLog # << >>
        /\ ArbLog[Len(ArbLog)].event = "swarm:completed"
        /\ \A k \in DOMAIN ArbLog :
            /\ ArbLog[k].completed
            /\ ArbLog[k].registered
            /\ ArbLog[k].shortlist = ranked_shortlist
            /\ ArbLog[k].event = "swarm:completed" => k = Len(ArbLog)
            /\ ArbLog[k].event = "swarm:update" =>
                   /\ ArbLog[k].status = "cancelled"
                   /\ ArbLog[k].winner = 0
                   /\ \A j \in 1..(k - 1) : ArbLog[j].event = "swarm:update"
            /\ ArbLog[k].event = "agent:booked" =>
                   /\ ArbLog[k].winner = winner
                   /\ ArbLog[k].agentId = winner
                   /\ k = Len(ArbLog) - 1
        /\ {ArbLog[k].agentId : k \in {j \in DOMAIN ArbLog : ArbLog[j].event = "swarm:update"}}
               = {arbInput[i].id : i \in {j \in DOMAIN arbInput :
                                             /\ arbInput[j].status = "booked"
                                             /\ arbInput[j].id # winner}}
        /\ winner # 0 => \E k \in DOMAIN ArbLog : ArbLog[k].event = "agent:booked"
        /\ SwarmId \notin swarms

\* A pass with a demotion: cancelled update, agent:booked, swarm:completed.
C27_Witness ==
    /\ arbState = "done"
    /\ Len(ArbLog) = 3
    /\ ArbLog[1].event = "swarm:update"
    /\ ArbLog[2].event = "agent:booked"
    /\ ArbLog[3].event = "swarm:completed"


\* C28: as soon as a run_agent task exists or a swarm:update was sent, the
\* race's first event is swarm:start; swarm:start is emitted once, with the
\* race and every candidate in the registry, and its snapshot shows every
\* candidate searching with no slot.
C28_StartBeforeWorkers ==
    /\ (pc # << >> \/ \E i \in DOMAIN updates : updates[i] # << >>)
           => broadcasts # << >> /\ broadcasts[1].event = "swarm:start"
    /\ \A k \in DOMAIN broadcasts :
           broadcasts[k].event = "swarm:start" =>
               /\ k = 1
               /\ broadcasts[k].registered
               /\ broadcasts[k].agents # << >>
               /\ \A i \in DOMAIN broadcasts[k].agents :
                      /\ broadcasts[k].agents[i].status = "searching"
                      /\ broadcasts[k].agents[i].slotTime = None

\* The race was started from nothing, swarm:start is its first event and a
\* worker has since sent an update to a client.
C28_Witness ==
    /\ broadcasts # << >>
    /\ broadcasts[1].event = "swarm:start"
    /\ \E i \in DOMAIN updates : updates[i] # << >>
    /\ \E i \in DOMAIN agents : agents[i].status # "searching"


\* C29: a book_appointment confirmation whose slot overlaps a busy range of
\* the user's calendar makes no candidate booked, on any payload format.
C29_BusySlotNeverBooked ==
    [][\A fmt \in WebhookFormats, agent_id \in 0..NumAgents, raw \in WebhookRawSlots :
          (/\ HandleCallStatus(fmt, agent_id, raw)
           /\ ~is_slot_available(normalize_slot_time(raw)))
          => \A i \in DOMAIN agents :
                 agents'[i].status = "booked" => agents[i].status = "booked"]_vars


\* C30: once the arbitration has selected a winner, the winner candidate
\* has status booked in every later state.
C30_WinnerFinal ==
    (arbState = "done" /\ winner # 0) => AgentOf(agents, winner).status = "booked"


\* C31: in a support-triggered single-candidate race swarm:completed is
\* emitted at most once, however the booking thread and the inbound
\* book_appointment webhooks interleave.
C31_SupportCompletedOnce == Len(completedEvents) <= 1


\* C32: a race started through run that is still in the registry has
\* completed = FALSE, so get_results never answers "completed" for it.
C32_RegisteredNotCompleted ==
    SwarmId \in swarms =>
        /\ ~completed
        /\ get_results(SwarmId).status # "completed"


\* C33: after an arbitration pass the winner is set exactly when the ranked
\* shortlist is non-empty, the winner is one of the shortlist's candidates,
\* and the rows carry ranks 1..k with k distinct candidate ids.
C33_WinnerInShortlist ==
    arbState = "done" =>
        /\ winner # 0 <=> ranked_shortlist # << >>
        /\ winner # 0 =>
               \E k \in DOMAIN ranked_shortlist : ranked_shortlist[k].agentId = winner
        /\ \A k \in DOMAIN ranked_shortlist : ranked_shortlist[k].rank = k
        /\ \A j, k \in DOMAIN ranked_shortlist :
               ranked_shortlist[j].agentId = ranked_shortlist[k].agentId => j = k


\* C34: in a race driven by its workers alone the completed flag is set
\* only when no worker is left to test it: no worker returns early, no
\* worker's own terminal event is cancelled, and a cancelled candidate is
\* one the arbitration found booked and demoted.
C34_WorkersNeverSeeCompleted ==
    /\ completed => \A i \in DOMAIN pc : pc[i] = "done"
    /\ \A i \in DOMAIN pc : pc[i] # "returned"
    /\ \A i \in DOMAIN updates :
           Len(updates[i]) >= 3 => updates[i][3].status \in {"booked", "rejected"}
    /\ \A i \in DOMAIN agents :
           agents[i].status = "cancelled" =>
               /\ arbState = "done"
               /\ arbInput[i].status = "booked"
               /\ agents[i].id # winner

\* Every worker has finished, the flag is set and the arbitration has
\* demoted a booked candidate.
C34_Witness ==
    /\ completed
    /\ \A i \in DOMAIN pc : pc[i] = "done"
    /\ \E i \in DOMAIN agents : agents[i].status = "cancelled"


\* C35: every race id stored in the agent-to-race map is a key of the
\* race-by-id map, however the starts and completions of races that share
\* candidate ids interleave.
C35_NoDanglingRegistryEntry ==
    \A id \in DOMAIN agent_to_swarm : agent_to_swarm[id] \in swarms

\* The modelled race has completed and left the registry while an agent id
\* it shared is mapped to another, live race.
C35_Witness ==
    /\ arbState = "done"
    /\ SwarmId \notin swarms
    /\ \E id \in DOMAIN agent_to_swarm : agent_to_swarm[id] \in swarms


\* C36: a race over an empty candidate set completes: once nothing is left
\* to run, the arbitration body has run, swarm:completed was emitted with no
\* winner and an empty shortlist, and the race has left the registry.
C36_EmptyRaceCompletes ==
    (agents = << >> /\ TasksEnded) =>
        /\ arbState = "done"
        /\ Len(completedEvents) = 1
        /\ completedEvents[1].winnerId = 0
        /\ completedEvents[1].rankedShortlist = << >>
        /\ SwarmId \notin swarms


\* The ids one retry run returned, and the runs that returned an id.
RunIds(k) == {notified_runs[k][i].entry_id : i \in DOMAIN notified_runs[k]}

RunsReturning(id) == {k \in DOMAIN notified_runs : id \in RunIds(k)}

\* C37: a waitlist entry is notified at most once.  Over any number of
\* check_waitlist_and_notify runs an entry is pending or notified, it is
\* notified exactly when some run returned it, no entry is returned by two
\* runs or twice by one run (so an entry that is no longer pending is never
\* returned), and one support:waitlist_callback was handed to
\* broadcast_support for each returned entry that has a user_id.
C37_NotifiedAtMostOnce ==
    /\ \A i \in DOMAIN WAITLIST :
        /\ WAITLIST[i].status \in {"pending", "notified"}
        /\ Cardinality(RunsReturning(WAITLIST[i].id)) <= 1
        /\ WAITLIST[i].status = "notified" <=> RunsReturning(WAITLIST[i].id) # {}
    /\ \A k \in DOMAIN notified_runs : Cardinality(RunIds(k)) = Len(notified_runs[k])
    /\ Len(waitlist_sent) =
           Cardinality({i \in DOMAIN WAITLIST :
                           /\ RunsReturning(WAITLIST[i].id) # {}
                           /\ WAITLIST[i].user_id # None})

\* Two runs each returned an entry, the second one while the entry of the
\* first was already notified, and a callback event was sent.
C37_Witness ==
    /\ Len(notified_runs) >= 2
    /\ notified_runs[1] # << >>
    /\ notified_runs[2] # << >>
    /\ waitlist_sent # << >>

\* The ts of a session's pending overrides, and the last ten of a sequence.
PendingTs(s) ==
    [i \in DOMAIN PendingOverrides(user_overrides, s) |->
        PendingOverrides(user_overrides, s)[i].ts]

MostRecentTen(q) == [i \in 1..(IF Len(q) > 10 THEN 10 ELSE Len(q)) |->
                        q[i + (IF Len(q) > 10 THEN Len(q) - 10 ELSE 0)]]

\* C38: for every support session, after any sequence of submissions and
\* polls, the pending list holds at most 10 overrides, namely the most
\* recent ones submitted since the session's last poll, in submission order;
\* and an override has been returned by exactly one poll when it was among
\* those at a poll of its session, by none otherwise.
C38_OverridesKeptAndPolledOnce ==
    /\ \A s \in OverrideSessions :
        /\ Len(PendingOverrides(user_overrides, s)) <= 10
        /\ PendingTs(s) = MostRecentTen(submitted[s])
    /\ \A t \in DOMAIN delivered : delivered[t] = (IF t \in due THEN 1 ELSE 0)

\* Eleven overrides went to one session, which was then polled: the first
\* one was dropped and the ten others returned, and nothing is pending.
C38_Witness ==
    /\ override_clock >= 11
    /\ Cardinality(due) = 10
    /\ delivered[1] = 0
    /\ \A s \in OverrideSessions : PendingOverrides(user_overrides, s) = << >>

====
